---- MODULE Spec2Model ----
(***************************************************************************)
(* A model of the ADGM document reviewer (reviewer.py, checklist.py,       *)
(* docx_utils.py, rag_setup.py): the keyword classifier, the process       *)
(* detector and checklist comparison, the context retriever, the parsing   *)
(* of the generative model's response, the annotator, and the batch        *)
(* pipeline that writes the combined report.                               *)
(*                                                                         *)
(* Text is a sequence of one-character strings, so that lower(), strip()   *)
(* and the substring test "kw in txt" are computed, not assumed.           *)
(***************************************************************************)
EXTENDS Integers, Sequences, FiniteSets, TLC

VARIABLES
  pc,             \* where the modelled call stands
  text,           \* detect_doc_type: the argument
  doc_type,       \* detect_doc_type: the value returned
  uploaded_types, \* the list of detected Document Types of the uploads
  process_name,   \* checklist.compare: the process name passed in
  process,        \* the process detected ("none" before detection)
  required,       \* the required list looked up for the process
  missing,        \* the missing list computed
  compared,       \* checklist.compare: the dict returned
  data,           \* texts.pkl as loaded: [texts, metadatas], aligned with the index
  ntotal,         \* faiss.index as loaded: the number of vectors it holds
  distance,       \* distance[i]: from the query's embedding to vector number i (0-based)
  top_k,          \* retrieve_context: the result count asked for
  labels,         \* I[0] as index.search returned it
  hits,           \* retrieve_context: the list returned
  outcome,        \* generate_content: what the model call does (a text, or it raises)
  issues,         \* call_gemini_for_review: the value returned
  error,          \* the exception that left the modelled call ("none": none did)
  folder,         \* the uploads directory: the numbers of the files it holds
  files,          \* analyze_uploads_folder: sorted(glob("*.docx"))
  results,        \* analyze_uploads_folder: the per-file results so far
  report,         \* reports/combined_review_report.json on disk
  reviewed,       \* the reviewed/ directory: file name -> the document saved
  doc,            \* the Document being annotated: its paragraphs, each a list of runs
  annotated       \* how many annotation calls were made on doc

classifierVars == <<text, doc_type>>

checklistVars == <<uploaded_types, process_name, process, required, missing, compared>>

retrieverVars == <<data, ntotal, distance, top_k, labels, hits>>

analyzerVars == <<outcome, issues>>

batchVars == <<folder, files, results, report, reviewed>>

annotatorVars == <<doc, annotated>>

vars ==
  <<pc, error, classifierVars, checklistVars, retrieverVars, analyzerVars,
    batchVars, annotatorVars>>

(***************************************************************************)
(* Python values and string primitives                                     *)
(***************************************************************************)

\* Python's None, and a str value; an argument that may be either is one of these.
PyNone == [tag |-> "None"]

PyStr(s) == [tag |-> "str", val |-> s]

UpperLetters ==
  <<"A", "B", "C", "D", "E", "F", "G", "H", "I", "J", "K", "L", "M",
    "N", "O", "P", "Q", "R", "S", "T", "U", "V", "W", "X", "Y", "Z">>

LowerLetters ==
  <<"a", "b", "c", "d", "e", "f", "g", "h", "i", "j", "k", "l", "m",
    "n", "o", "p", "q", "r", "s", "t", "u", "v", "w", "x", "y", "z">>

\* str.lower() on one character.
LowerChar(c) ==
  IF \E i \in 1..Len(UpperLetters) : UpperLetters[i] = c
  THEN LowerLetters[CHOOSE i \in 1..Len(UpperLetters) : UpperLetters[i] = c]
  ELSE c

\* str.lower()
Lower(s) == [i \in 1..Len(s) |-> LowerChar(s[i])]

\* Python's "kw in txt" on strings: kw occurs as a contiguous substring of txt.
Contains(kw, txt) ==
  \E i \in 0..(Len(txt) - Len(kw)) : SubSeq(txt, i + 1, i + Len(kw)) = kw

\* Python's "x or ''" for an argument that is a str or None.
OrEmpty(x) == IF x.tag = "None" THEN <<>> ELSE x.val

\* The concatenation of a list of strings.
RECURSIVE Concat(_)
Concat(ss) == IF ss = <<>> THEN <<>> ELSE Head(ss) \o Concat(Tail(ss))

\* sep.join(ss)
RECURSIVE JoinWith(_, _)
JoinWith(ss, sep) ==
  IF ss = <<>> THEN <<>>
  ELSE IF Len(ss) = 1 THEN ss[1]
  ELSE ss[1] \o sep \o JoinWith(Tail(ss), sep)

\* Python's None where a Document is expected (read_pdf returns it).
NoDocument == [tag |-> "None"]

(***************************************************************************)
(* reviewer.py: the keyword classifier                                     *)
(***************************************************************************)

\* The dict, in its insertion order (the order .items() iterates in).
DOC_TYPE_KEYWORDS ==
  <<
   [dtype |-> "Articles of Association",
     keywords |-> <<
        <<"a", "r", "t", "i", "c", "l", "e", "s", " ", "o", "f", " ", "a", "s", "s", "o", "c", "i", "a", "t", "i", "o", "n">>,
        <<"a", "r", "t", "i", "c", "l", "e", "s", " ", "o", "f", " ", "a", "s", "s", "o", "c", "i", "a", "t", "i", "o", "n", " ", "(">>,
        <<"a", "r", "t", "i", "c", "l", "e", "s", " ", "o", "f", " ", "a", "s", "s", "o", "c">> >>],
   [dtype |-> "Memorandum of Association",
     keywords |-> <<
        <<"m", "e", "m", "o", "r", "a", "n", "d", "u", "m", " ", "o", "f", " ", "a", "s", "s", "o", "c", "i", "a", "t", "i", "o", "n">>,
        <<"m", "e", "m", "o", "r", "a", "n", "d", "u", "m", " ", "o", "f", " ", "a", "s", "s", "o", "c">>,
        <<"m", "o", "a">> >>],
   [dtype |-> "Board Resolution",
     keywords |-> <<
        <<"b", "o", "a", "r", "d", " ", "r", "e", "s", "o", "l", "u", "t", "i", "o", "n">>,
        <<"r", "e", "s", "o", "l", "u", "t", "i", "o", "n", " ", "o", "f", " ", "t", "h", "e", " ", "b", "o", "a", "r", "d">>,
        <<"b", "o", "a", "r", "d", " ", "o", "f", " ", "d", "i", "r", "e", "c", "t", "o", "r", "s", " ", "r", "e", "s", "o", "l", "u", "t", "i", "o", "n">> >>],
   [dtype |-> "Shareholder Resolution",
     keywords |-> <<
        <<"s", "h", "a", "r", "e", "h", "o", "l", "d", "e", "r", " ", "r", "e", "s", "o", "l", "u", "t", "i", "o", "n">>,
        <<"r", "e", "s", "o", "l", "u", "t", "i", "o", "n", " ", "o", "f", " ", "t", "h", "e", " ", "s", "h", "a", "r", "e", "h", "o", "l", "d", "e", "r", "s">> >>],
   [dtype |-> "Incorporation Application Form",
     keywords |-> <<
        <<"a", "p", "p", "l", "i", "c", "a", "t", "i", "o", "n", " ", "f", "o", "r", " ", "i", "n", "c", "o", "r", "p", "o", "r", "a", "t", "i", "o", "n">>,
        <<"i", "n", "c", "o", "r", "p", "o", "r", "a", "t", "i", "o", "n", " ", "a", "p", "p", "l", "i", "c", "a", "t", "i", "o", "n">> >>],
   [dtype |-> "UBO Declaration Form",
     keywords |-> <<
        <<"u", "b", "o", " ", "d", "e", "c", "l", "a", "r", "a", "t", "i", "o", "n">>,
        <<"u", "l", "t", "i", "m", "a", "t", "e", " ", "b", "e", "n", "e", "f", "i", "c", "i", "a", "l", " ", "o", "w", "n", "e", "r">>,
        <<"u", "b", "o">> >>],
   [dtype |-> "Register of Members and Directors",
     keywords |-> <<
        <<"r", "e", "g", "i", "s", "t", "e", "r", " ", "o", "f", " ", "m", "e", "m", "b", "e", "r", "s">>,
        <<"r", "e", "g", "i", "s", "t", "e", "r", " ", "o", "f", " ", "d", "i", "r", "e", "c", "t", "o", "r", "s">>,
        <<"r", "e", "g", "i", "s", "t", "e", "r", " ", "o", "f", " ", "m", "e", "m", "b", "e", "r", "s", " ", "a", "n", "d", " ", "d", "i", "r", "e", "c", "t", "o", "r", "s">> >>],
   [dtype |-> "Change of Registered Address Notice",
     keywords |-> <<
        <<"c", "h", "a", "n", "g", "e", " ", "o", "f", " ", "r", "e", "g", "i", "s", "t", "e", "r", "e", "d", " ", "a", "d", "d", "r", "e", "s", "s">>,
        <<"r", "e", "g", "i", "s", "t", "e", "r", "e", "d", " ", "a", "d", "d", "r", "e", "s", "s", " ", "n", "o", "t", "i", "c", "e">> >>],
   [dtype |-> "Employment Contract",
     keywords |-> <<
        <<"s", "t", "a", "n", "d", "a", "r", "d", " ", "e", "m", "p", "l", "o", "y", "m", "e", "n", "t", " ", "c", "o", "n", "t", "r", "a", "c", "t">>,
        <<"e", "m", "p", "l", "o", "y", "m", "e", "n", "t", " ", "c", "o", "n", "t", "r", "a", "c", "t">> >>],
   [dtype |-> "Data Protection Policy",
     keywords |-> <<
        <<"a", "p", "p", "r", "o", "p", "r", "i", "a", "t", "e", " ", "p", "o", "l", "i", "c", "y", " ", "d", "o", "c", "u", "m", "e", "n", "t">>,
        <<"d", "a", "t", "a", " ", "p", "r", "o", "t", "e", "c", "t", "i", "o", "n">> >>]
  >>

\* The loop of detect_doc_type from type number i on: the first type, in the
\* order of the dict, one of whose keywords occurs in txt.
RECURSIVE ScanDocTypes(_, _)
ScanDocTypes(txt, i) ==
  IF i > Len(DOC_TYPE_KEYWORDS) THEN "Unknown"
  ELSE IF \E k \in 1..Len(DOC_TYPE_KEYWORDS[i].keywords) :
            Contains(DOC_TYPE_KEYWORDS[i].keywords[k], txt)
       THEN DOC_TYPE_KEYWORDS[i].dtype
       ELSE ScanDocTypes(txt, i + 1)

\* detect_doc_type with the .lower() forgotten: the keywords are matched
\* against the text as written.
detect_doc_type_case_sensitive(t) == ScanDocTypes(OrEmpty(t), 1)

detect_doc_type(t) == ScanDocTypes(Lower(OrEmpty(t)), 1)

(***************************************************************************)
(* reviewer.py and checklist.py: process detection and the checklist       *)
(***************************************************************************)

\* Python's "x in list".
InList(x, xs) == \E i \in 1..Len(xs) : xs[i] = x

\* dict.get(key, default) on a dict given as a function.
DictGet(d, key, default) == IF key \in DOMAIN d THEN d[key] ELSE default

\* The list literal of reviewer.detect_process.
AnchorTypes ==
  <<"Articles of Association", "Memorandum of Association",
    "Incorporation Application Form">>

REQUIRED_DOCS ==
  [p \in {"Company Incorporation"} |->
     <<"Articles of Association",
       "Memorandum of Association",
       "Incorporation Application Form",
       "UBO Declaration Form",
       "Register of Members and Directors">>]

\* reviewer.detect_process with the rule of checklist.detect_process: two
\* uploads of required types are needed.
detect_process_two_needed(types) ==
  IF Cardinality({i \in 1..Len(types) :
                    InList(types[i], REQUIRED_DOCS["Company Incorporation"])}) >= 2
  THEN "Company Incorporation"
  ELSE "Unknown"

\* reviewer.detect_process
detect_process(types) ==
  IF \E i \in 1..Len(types) : InList(types[i], AnchorTypes)
  THEN "Company Incorporation"
  ELSE "Unknown"

\* The list comprehension [r for r in required if r not in uploaded] that
\* keeps the required types already uploaded instead of the absent ones.
MissingFrom_kept_present(req, uploaded) ==
  SelectSeq(req, LAMBDA r : InList(r, uploaded))

\* The list comprehension [r for r in required if r not in uploaded].
MissingFrom(req, uploaded) ==
  SelectSeq(req, LAMBDA r : ~InList(r, uploaded))

\* checklist.py's own table.
REQUIRED ==
  [p \in {"Company Incorporation"} |->
     <<"Articles of Association",
       "Memorandum of Association",
       "Incorporation Application Form",
       "UBO Declaration Form",
       "Register of Members and Directors">>]

\* checklist.detect_process: sum(1 for t in doc_types if t in REQUIRED[...]) >= 2
checklist_detect_process(doc_types) ==
  IF Cardinality({i \in 1..Len(doc_types) :
                    InList(doc_types[i], REQUIRED["Company Incorporation"])}) >= 2
  THEN "Company Incorporation"
  ELSE "Unknown"

\* checklist.compare
compare(types, name) ==
  LET req == DictGet(REQUIRED, name, <<>>)
  IN  [process  |-> name,
       uploaded |-> Len(types),
       required |-> Len(req),
       missing  |-> MissingFrom(req, types)]

(***************************************************************************)
(* reviewer.py: the context retriever                                      *)
(***************************************************************************)

\* Python's list[i] for i inside the list's range: 0-based, a negative i
\* counting from the end.  (Outside the range Python raises IndexError.)
PyInRange(xs, i) == -Len(xs) <= i /\ i < Len(xs)

PyIndex(xs, i) == IF i >= 0 THEN xs[i + 1] ELSE xs[Len(xs) + i + 1]

\* The rankings of the n stored vectors by non-decreasing distance d (vector
\* number v, 0-based, has distance d[v + 1]); equal distances rank either way.
Rankings(d, n) ==
  { r \in [1..n -> 0..(n - 1)] :
      /\ \A i, j \in 1..n : i # j => r[i] # r[j]
      /\ \A i \in 1..(n - 1) : d[r[i] + 1] <= d[r[i + 1] + 1] }

\* index.search(q_emb, k)[1][0] on an IndexFlatL2 of n vectors: the labels of
\* the k nearest vectors (all n of them when n < k), nearest first, then -1 in every place for
\* which the index has no further vector.
SearchLabels(d, n, k) ==
  { [i \in 1..k |-> IF i <= n THEN r[i] ELSE -1] : r \in Rankings(d, n) }

\* The loop of retrieve_context over the labels: one hit per label, the
\* label used as a Python list index.
HitsOf(dat, lbls) ==
  [i \in 1..Len(lbls) |->
     [text |-> PyIndex(dat.texts, lbls[i]),
      meta |-> PyIndex(dat.metadatas, lbls[i])]]

(***************************************************************************)
(* reviewer.py: parsing the generative model's response                    *)
(***************************************************************************)

\* Python values: a list, a dict (a function of its keys), an int.
PyList(xs) == [tag |-> "list", items |-> xs]

PyDict(d) == [tag |-> "dict", d |-> d]

PyInt(n) == [tag |-> "int", val |-> n]

\* The characters str.strip() removes.
Whitespace == {" ", "\n", "\t", "\r"}

RECURSIVE LStrip(_, _)
LStrip(s, cs) == IF s # <<>> /\ Head(s) \in cs THEN LStrip(Tail(s), cs) ELSE s

RECURSIVE RStrip(_, _)
RStrip(s, cs) ==
  IF s # <<>> /\ s[Len(s)] \in cs THEN RStrip(SubSeq(s, 1, Len(s) - 1), cs) ELSE s

\* str.strip(chars): the characters of cs removed from both ends.
Strip(s, cs) == RStrip(LStrip(s, cs), cs)

\* str.startswith
StartsWith(s, prefix) ==
  Len(s) >= Len(prefix) /\ SubSeq(s, 1, Len(prefix)) = prefix

\* s[n:]
SliceFrom(s, n) == SubSeq(s, n + 1, Len(s))

\* The backquote character (U+0060), which a TLA+ string cannot hold.
Backquote == "BACKQUOTE"

Fence == <<Backquote, Backquote, Backquote>>

\* The text of a JSON object stands in a response as one symbol; json.loads
\* turns it into the dict below.  "{a}" names a section and carries no
\* paragraph_index, "{b}" carries a paragraph_index and no suggestion, "{c}"
\* carries a paragraph_index past the end of a short document.
JSONObjects ==
  [o \in {"{a}", "{b}", "{c}"} |->
     CASE o = "{a}" ->
            [document_section |-> <<"N", "a", "m", "e">>, issue |-> <<"b", "a", "d">>,
             severity |-> "High", suggestion |-> <<"f", "i", "x">>,
             source_reference |-> "ref.txt"]
       [] o = "{b}" ->
            [document_section |-> <<>>, issue |-> <<"o", "d", "d">>,
             severity |-> "Low", paragraph_index |-> 1]
       [] o = "{c}" ->
            [issue |-> <<"o", "d", "d">>, suggestion |-> <<"f", "i", "x">>, paragraph_index |-> 7]]

Digits == <<"1", "2", "3", "4", "5", "6", "7", "8", "9">>

DigitValue(c) == CHOOSE v \in 1..Len(Digits) : Digits[v] = c

IsDigit(c) == \E v \in 1..Len(Digits) : Digits[v] = c

\* json.loads skips these between tokens.
RECURSIVE SkipWs(_, _)
SkipWs(s, i) == IF i <= Len(s) /\ s[i] \in Whitespace THEN SkipWs(s, i + 1) ELSE i

\* The number that starts at s[i]: [val, next] with acc the value so far.
RECURSIVE ScanNumber(_, _, _)
ScanNumber(s, i, acc) ==
  IF i <= Len(s) /\ IsDigit(s[i])
  THEN ScanNumber(s, i + 1, 10 * acc + DigitValue(s[i]))
  ELSE [ok |-> TRUE, val |-> PyInt(acc), next |-> i]

ParseFail == [ok |-> FALSE]

\* The JSON value that starts at s[i] (an object, a number, an array of
\* values): [ok, val, next], next the place after it.
RECURSIVE ParseValue(_, _)
RECURSIVE ParseElements(_, _, _)
ParseValue(s, i) ==
  IF i > Len(s) THEN ParseFail
  ELSE IF s[i] \in DOMAIN JSONObjects
       THEN [ok |-> TRUE, val |-> PyDict(JSONObjects[s[i]]), next |-> i + 1]
  ELSE IF IsDigit(s[i]) THEN ScanNumber(s, i, 0)
  ELSE IF s[i] = "["
       THEN LET j == SkipWs(s, i + 1)
            IN  IF j <= Len(s) /\ s[j] = "]"
                THEN [ok |-> TRUE, val |-> PyList(<<>>), next |-> j + 1]
                ELSE ParseElements(s, j, <<>>)
  ELSE ParseFail

\* The rest of an array from the element that starts at s[i]; acc holds the
\* elements before it.
ParseElements(s, i, acc) ==
  LET v == ParseValue(s, i)
  IN  IF ~v.ok THEN ParseFail
      ELSE LET j == SkipWs(s, v.next)
           IN  IF j > Len(s) THEN ParseFail
               ELSE IF s[j] = ","
                    THEN ParseElements(s, SkipWs(s, j + 1), Append(acc, v.val))
               ELSE IF s[j] = "]"
                    THEN [ok |-> TRUE, val |-> PyList(Append(acc, v.val)), next |-> j + 1]
               ELSE ParseFail

\* json.loads(s): [ok, val], ok FALSE standing for json.JSONDecodeError.
json_loads(s) ==
  LET v == ParseValue(s, SkipWs(s, 1))
  IN  IF v.ok /\ SkipWs(s, v.next) = Len(s) + 1
      THEN [ok |-> TRUE, val |-> v.val]
      ELSE ParseFail

\* Lines 147-153 with the .lower() of the tag test forgotten: only a
\* lower-case "json" tag is removed.
output_text_of_tag_case_sensitive(response_text) ==
  LET stripped == Strip(response_text, Whitespace)
  IN  IF StartsWith(stripped, Fence)
      THEN LET unfenced == Strip(stripped, {Backquote})
           IN  IF StartsWith(unfenced, <<"j", "s", "o", "n">>)
               THEN Strip(SliceFrom(unfenced, 4), Whitespace)
               ELSE unfenced
      ELSE stripped

\* Lines 147-153: output_text as handed to json.loads.
output_text_of(response_text) ==
  LET stripped == Strip(response_text, Whitespace)
  IN  IF StartsWith(stripped, Fence)
      THEN LET unfenced == Strip(stripped, {Backquote})
           IN  IF StartsWith(Lower(unfenced), <<"j", "s", "o", "n">>)
               THEN Strip(SliceFrom(unfenced, 4), Whitespace)
               ELSE unfenced
      ELSE stripped

\* Lines 155-159: the value call_gemini_for_review returns for a response text.
issues_of(response_text) ==
  LET output_text == output_text_of(response_text)
      parsed == json_loads(output_text)
  IN  IF parsed.ok
      THEN parsed.val
      ELSE PyList(<<PyDict([error |-> "LLM did not return valid JSON",
                            raw   |-> output_text])>>)

(***************************************************************************)
(* reviewer.py and docx_utils.py: documents and the annotator              *)
(***************************************************************************)

\* A document's paragraphs are a list of paragraphs, a paragraph a list of
\* runs, a run [text, bold, color].  Paragraph.text joins the runs' texts.
PlainRun(t) == [text |-> t, bold |-> FALSE, color |-> "none"]

ParagraphText(para) == Concat([i \in 1..Len(para) |-> para[i].text])

\* A Document as python-docx opens it.
OpenDocument(paras) == [tag |-> "Document", paragraphs |-> paras]

\* f"  [REVIEW: {comment}]"
ReviewMarker(comment) == <<" ", " ", "[", "R", "E", "V", "I", "E", "W", ":", " ">> \o comment \o <<"]">>

\* paragraph.add_run(text), run.bold = True, run.font.color.rgb = RGBColor(0xFF, 0, 0)
AddRun(para, t) == Append(para, [text |-> t, bold |-> TRUE, color |-> "FF0000"])

\* An annotator that writes the marker in place of the paragraph's content.
add_inline_annotation_overwrites(d, para_index, comment) ==
  IF d = NoDocument THEN d
  ELSE IF 0 <= para_index /\ para_index < Len(d.paragraphs)
       THEN [d EXCEPT !.paragraphs[para_index + 1] =
                        <<[text |-> ReviewMarker(comment), bold |-> TRUE,
                           color |-> "FF0000"]>>]
       ELSE d

\* reviewer.add_inline_annotation
add_inline_annotation(d, para_index, comment) ==
  IF d = NoDocument THEN d
  ELSE IF 0 <= para_index /\ para_index < Len(d.paragraphs)
       THEN [d EXCEPT !.paragraphs[para_index + 1] =
                        AddRun(@, ReviewMarker(comment))]
       ELSE d

\* docx_utils.add_inline_annotation, for a para_index doc.paragraphs[para_index]
\* accepts (another one raises IndexError): no bounds check, a negative index
\* counts from the end.
docx_utils_add_inline_annotation(d, para_index, t) ==
  LET at == IF para_index >= 0 THEN para_index + 1
            ELSE Len(d.paragraphs) + para_index + 1
  IN  [d EXCEPT !.paragraphs[at] = AddRun(@, ReviewMarker(t))]

\* issue.get("paragraph_index", 0)
annotation_index(issue) == DictGet(issue, "paragraph_index", 0)

\* issue.get("suggestion", issue.get("issue", ""))
annotation_comment(issue) ==
  DictGet(issue, "suggestion", DictGet(issue, "issue", <<>>))

\* Lines 182-188: the first paragraph whose text holds the lower-cased
\* section text, 0 when none does or the section text is empty.
RECURSIVE FindParagraph(_, _, _)
FindParagraph(paras, qlow, i) ==
  IF i > Len(paras) THEN 0
  ELSE IF qlow # <<>> /\ Contains(qlow, Lower(ParagraphText(paras[i])))
       THEN i - 1
       ELSE FindParagraph(paras, qlow, i + 1)

\* Lines 179-189 for one issue dict.
backfill_paragraph_index(issue, d) ==
  IF "paragraph_index" \in DOMAIN issue THEN issue
  ELSE IF d = NoDocument THEN issue
  ELSE LET q == DictGet(issue, "document_section", <<>>)
           found_idx == FindParagraph(d.paragraphs, Lower(q), 1)
       IN  ("paragraph_index" :> found_idx) @@ issue

\* Lines 177-189 over the elements of a list from element i on: [ok, items],
\* or [ok, error] at the first element the loop body raises on (an int has
\* no "in", a list has no .get; without a Document .get is never reached).
RECURSIVE BackfillItems(_, _, _)
BackfillItems(items, d, i) ==
  IF i > Len(items) THEN [ok |-> TRUE, items |-> items]
  ELSE IF items[i].tag = "int" THEN [ok |-> FALSE, error |-> "TypeError"]
  ELSE IF items[i].tag = "list"
       THEN IF d = NoDocument
            THEN BackfillItems(items, d, i + 1)
            ELSE [ok |-> FALSE, error |-> "AttributeError"]
  ELSE BackfillItems(
         [items EXCEPT ![i] = PyDict(backfill_paragraph_index(items[i].d, d))],
         d, i + 1)

\* Lines 177-189 for whatever json.loads returned: a list is walked by
\* element, a dict by key (a str, which has no .get), an int cannot be walked.
Backfill(value, d) ==
  IF value.tag = "int" THEN [ok |-> FALSE, error |-> "TypeError"]
  ELSE IF value.tag = "dict"
       THEN IF d = NoDocument \/ DOMAIN value.d = {}
            THEN [ok |-> TRUE, val |-> value]
            ELSE [ok |-> FALSE, error |-> "AttributeError"]
  ELSE LET r == BackfillItems(value.items, d, 1)
       IN  IF r.ok THEN [ok |-> TRUE, val |-> PyList(r.items)] ELSE r

\* Lines 196-198: the annotation loop from issue i on.
RECURSIVE AnnotateAll(_, _, _)
AnnotateAll(d, items, i) ==
  IF i > Len(items) THEN d
  ELSE AnnotateAll(
         add_inline_annotation(d, annotation_index(items[i].d),
                               annotation_comment(items[i].d)),
         items, i + 1)

(***************************************************************************)
(* reviewer.py: the single-document pipeline and the batch pipeline        *)
(***************************************************************************)

\* A file of the uploads directory: its name, the suffix of the name that
\* endswith() and the glob pattern look at, and what python-docx or PyMuPDF
\* reads from it.
DocxUpload(name, paras) ==
  [path |-> name, ext |-> <<".", "d", "o", "c", "x">>, paragraphs |-> paras, pdf_text |-> <<>>]

PdfUpload(name, t) ==
  [path |-> name, ext |-> <<".", "p", "d", "f">>, paragraphs |-> <<>>, pdf_text |-> t]

OtherUpload(name, suffix) ==
  [path |-> name, ext |-> suffix, paragraphs |-> <<>>, pdf_text |-> <<>>]

\* Path(output_dir) / f"reviewed_{Path(path).name}"
ReviewedName(file) == <<"reviewed_", file.path>>

\* read_docx: "\n".join([p.text for p in doc.paragraphs])
read_docx_text(paras) ==
  JoinWith([i \in 1..Len(paras) |-> ParagraphText(paras[i])], <<"\n">>)

\* What a call does: it raises, or it returns a result and has saved (or
\* not, for a PDF) the annotated document.
Raises(e) == [raised |-> TRUE, error |-> e]

Returns(res, d) == [raised |-> FALSE, result |-> res, saved |-> d]

\* analyze_single_file(path) when the model call does out.
analyze_single_file(file, out) ==
  LET ext == Lower(file.ext)
  IN  IF ext # <<".", "d", "o", "c", "x">> /\ ext # <<".", "p", "d", "f">>
      THEN Raises("ValueError")
      ELSE
        LET d == IF ext = <<".", "d", "o", "c", "x">>
                 THEN OpenDocument(file.paragraphs)
                 ELSE NoDocument
            doc_text == IF ext = <<".", "d", "o", "c", "x">>
                        THEN read_docx_text(file.paragraphs)
                        ELSE file.pdf_text
            dtype == detect_doc_type(PyStr(doc_text))
        IN  IF out.tag = "raises"
            THEN Raises(out.error)
            ELSE
              LET filled == Backfill(issues_of(out.val), d)
              IN  IF ~filled.ok
                  THEN Raises(filled.error)
                  ELSE
                    LET items == IF filled.val.tag = "list"
                                 THEN filled.val.items
                                 ELSE <<>>
                        after == IF d = NoDocument THEN d
                                 ELSE AnnotateAll(d, items, 1)
                    IN  Returns([file          |-> file.path,
                                 doc_type      |-> dtype,
                                 reviewed_file |-> IF d = NoDocument
                                                   THEN <<"None">>
                                                   ELSE ReviewedName(file),
                                 issues        |-> filled.val],
                                after)

\* The reviewed/ directory after a call that returned r for the file.
SavedInto(dir, file, r) ==
  IF r.saved = NoDocument THEN dir
  ELSE (ReviewedName(file) :> r.saved.paragraphs) @@ dir

\* sorted(glob.glob(os.path.join(uploads_dir, "*.docx"))) over a directory
\* that holds the files of the given numbers; choices lists every file that
\* can be there, in the order of the names.
GlobDocx(choices, held) ==
  LET numbers == SelectSeq([i \in 1..Len(choices) |-> i],
                           LAMBDA i : i \in held /\ choices[i].ext = <<".", "d", "o", "c", "x">>)
  IN  [k \in 1..Len(numbers) |-> choices[numbers[k]]]

\* combined_output
CombinedReport(proc, fs, req, miss, res) ==
  [tag                |-> "written",
   process            |-> proc,
   documents_uploaded |-> Len(fs),
   required_documents |-> Len(req),
   missing_documents  |-> miss,
   per_file_results   |-> res]

(***************************************************************************)
(* The state of each part before it runs                                   *)
(***************************************************************************)

\* The smallest index rag_setup.py can have written (it raises on no
\* embeddings), loaded and not yet searched.
RetrieverIdle ==
  /\ data = [texts |-> <<"chunk0">>, metadatas |-> <<[source |-> "ref.txt"]>>]
  /\ ntotal = 1
  /\ distance = <<0>>
  /\ top_k = 0
  /\ labels = <<>>
  /\ hits = <<>>

\* No report was ever written.
NoReport == [tag |-> "absent"]

\* The report an earlier batch run left behind.
EarlierReport == [tag |-> "earlier run"]

\* No batch has run.
BatchIdle ==
  /\ folder = {}
  /\ files = <<>>
  /\ results = <<>>
  /\ report = NoReport
  /\ reviewed = <<>>

\* No document is open.
AnnotatorIdle ==
  /\ doc = NoDocument
  /\ annotated = 0

\* The generative model has not been called.
AnalyzerIdle ==
  /\ outcome = [tag |-> "none"]
  /\ issues = [tag |-> "none"]

\* The classifier has not been called.
ClassifierIdle ==
  /\ text = PyNone
  /\ doc_type = "none"

\* No checklist has been computed.
ChecklistIdle ==
  /\ uploaded_types = <<>>
  /\ process_name = "none"
  /\ process = "none"
  /\ required = <<>>
  /\ missing = <<>>
  /\ compared = [process |-> "none"]

(***************************************************************************)
(* The classifier on its own: every bounded text, then one call.           *)
(***************************************************************************)

\* How many pieces a text is put together from.
MaxPieces == 2

\* Fragments of document text: keyword phrases in several letter cases,
\* filler, and halves of phrases that only join across a piece boundary.
TextPieces ==
  { <<"A", "r", "t", "i", "c", "l", "e", "s", " ", "o", "f", " ", "A", "s", "s", "o", "c", "i", "a", "t", "i", "o", "n">>,
    <<"A", "R", "T", "I", "C", "L", "E", "S", " ", "O", "F", " ", "A", "S", "S", "O", "C">>,
    <<"M", "e", "m", "o", "r", "a", "n", "d", "u", "m", " ", "o", "f", " ", "A", "s", "s", "o", "c", "i", "a", "t", "i", "o", "n">>,
    <<"M", "o", "A">>,
    <<"B", "o", "a", "r", "d", " ", "R", "e", "s", "o", "l", "u", "t", "i", "o", "n">>,
    <<"R", "e", "s", "o", "l", "u", "t", "i", "o", "n", " ", "o", "f", " ", "t", "h", "e", " ", "S", "h", "a", "r", "e", "h", "o", "l", "d", "e", "r", "s">>,
    <<"A", "p", "p", "l", "i", "c", "a", "t", "i", "o", "n", " ", "f", "o", "r", " ", "I", "n", "c", "o", "r", "p", "o", "r", "a", "t", "i", "o", "n">>,
    <<"U", "B", "O">>,
    <<"u", "b", "o", " ", "d", "e", "c", "l", "a", "r", "a", "t", "i", "o", "n">>,
    <<"R", "e", "g", "i", "s", "t", "e", "r", " ", "o", "f", " ", "D", "i", "r", "e", "c", "t", "o", "r", "s">>,
    <<"C", "h", "a", "n", "g", "e", " ", "o", "f", " ", "R", "e", "g", "i", "s", "t", "e", "r", "e", "d", " ", "A", "d", "d", "r", "e", "s", "s">>,
    <<"E", "m", "p", "l", "o", "y", "m", "e", "n", "t", " ", "C", "o", "n", "t", "r", "a", "c", "t">>,
    <<"D", "A", "T", "A", " ", "P", "R", "O", "T", "E", "C", "T", "I", "O", "N">>,
    <<" ">>,
    <<"m">>,
    <<"o", "a">>,
    <<"l", "o", "r", "e", "m">>,
    <<"a", "r", "t", "i", "c", "l", "e", "s", " ", "o", "f">>,
    <<" ", "a", "s", "s", "o", "c">> }

PieceLists == UNION { [1..n -> TextPieces] : n \in 0..MaxPieces }

ClassifierInputs == { PyStr(Concat(ps)) : ps \in PieceLists } \cup { PyNone }

InitClassify ==
  /\ pc = "call"
  /\ text \in ClassifierInputs
  /\ doc_type = "none"
  /\ ChecklistIdle
  /\ RetrieverIdle
  /\ AnalyzerIdle
  /\ BatchIdle
  /\ AnnotatorIdle
  /\ error = "none"

Classify ==
  /\ pc = "call"
  /\ doc_type' = detect_doc_type(text)
  /\ pc' = "returned"
  /\ UNCHANGED <<text, error, checklistVars, retrieverVars, analyzerVars, batchVars, annotatorVars>>

NextClassify == Classify

SpecClassify == InitClassify /\ [][NextClassify]_vars

\* The text t holds, in some letter case, the phrase kw.
ContainsAnyCase(kw, t) ==
  /\ t.tag = "str"
  /\ \E i \in 0..(Len(t.val) - Len(kw)) :
       \A j \in 1..Len(kw) : LowerChar(t.val[i + j]) = LowerChar(kw[j])

\* The text t holds, in some letter case, a registered phrase of type number i.
HasPhraseOf(i, t) ==
  \E k \in 1..Len(DOC_TYPE_KEYWORDS[i].keywords) :
    ContainsAnyCase(DOC_TYPE_KEYWORDS[i].keywords[k], t)

TypeNumbers == 1..Len(DOC_TYPE_KEYWORDS)

\* C1 as stated: a text that holds a registered phrase of type T is classified
\* T, whatever else it holds, and a text that holds no registered phrase (the
\* empty text and None included) is classified "Unknown".
C1_AnyPhraseDecides ==
  pc = "returned" =>
    /\ \A i \in TypeNumbers :
         HasPhraseOf(i, text) => doc_type = DOC_TYPE_KEYWORDS[i].dtype
    /\ (\A i \in TypeNumbers : ~HasPhraseOf(i, text)) => doc_type = "Unknown"

\* C1 as amended: a text that holds a registered phrase of type T, and no
\* registered phrase of a type listed before T in DOC_TYPE_KEYWORDS, is
\* classified T; a text that holds no registered phrase is classified "Unknown".
C1_FirstListedPhraseDecides ==
  pc = "returned" =>
    /\ \A i \in TypeNumbers :
         (HasPhraseOf(i, text) /\ \A j \in 1..(i - 1) : ~HasPhraseOf(j, text))
           => doc_type = DOC_TYPE_KEYWORDS[i].dtype
    /\ (\A i \in TypeNumbers : ~HasPhraseOf(i, text)) => doc_type = "Unknown"

\* A text written with capital letters that holds phrases of two types has
\* been classified as the one listed first.
C1_Witness ==
  /\ pc = "returned"
  /\ text.tag = "str"
  /\ text.val # Lower(text.val)
  /\ \E i, j \in TypeNumbers :
       /\ i < j
       /\ HasPhraseOf(i, text)
       /\ HasPhraseOf(j, text)
       /\ doc_type = DOC_TYPE_KEYWORDS[i].dtype

\* The None argument and the empty text have been classified "Unknown".
C1_WitnessUnknown ==
  /\ pc = "returned"
  /\ text = PyNone
  /\ doc_type = "Unknown"

(***************************************************************************)
(* Process detection and the checklist on their own: every bounded list of *)
(* detected types; the batch pipeline's three lines, checklist.py's two    *)
(* functions, and a further upload followed by a new detection.            *)
(***************************************************************************)

\* The closed set of Document Types.
DocTypes ==
  { DOC_TYPE_KEYWORDS[i].dtype : i \in 1..Len(DOC_TYPE_KEYWORDS) } \cup { "Unknown" }

\* How many uploads a list of detected types holds at the start.
MaxUploads == 3

UploadLists == UNION { [1..n -> DocTypes] : n \in 0..MaxUploads }

\* Process names handed to checklist.compare: the known one and two others.
ProcessNames == { "Company Incorporation", "Unknown", "Licensing" }

InitChecklist ==
  /\ pc = "call"
  /\ ClassifierIdle
  /\ RetrieverIdle
  /\ AnalyzerIdle
  /\ BatchIdle
  /\ AnnotatorIdle
  /\ error = "none"
  /\ uploaded_types \in UploadLists
  /\ process_name \in ProcessNames
  /\ process = "none"
  /\ required = <<>>
  /\ missing = <<>>
  /\ compared = [process |-> "none"]

\* analyze_uploads_folder, lines 225-227, on the list collected by its loop.
BatchChecklist ==
  /\ pc = "call"
  /\ process' = detect_process(uploaded_types)
  /\ required' = DictGet(REQUIRED_DOCS, process', <<>>)
  /\ missing' = MissingFrom(required', uploaded_types)
  /\ pc' = "checked"
  /\ UNCHANGED <<classifierVars, retrieverVars, analyzerVars, batchVars, annotatorVars, error, uploaded_types, process_name, compared>>

\* One more document is uploaded and the three lines run again on the longer list.
UploadAndRecheck ==
  /\ pc = "checked"
  /\ \E t \in DocTypes : uploaded_types' = Append(uploaded_types, t)
  /\ process' = detect_process(uploaded_types')
  /\ required' = DictGet(REQUIRED_DOCS, process', <<>>)
  /\ missing' = MissingFrom(required', uploaded_types')
  /\ pc' = "rechecked"
  /\ UNCHANGED <<classifierVars, retrieverVars, analyzerVars, batchVars, annotatorVars, error, process_name, compared>>

\* checklist.detect_process
ChecklistDetect ==
  /\ pc = "call"
  /\ process' = checklist_detect_process(uploaded_types)
  /\ pc' = "checklist_detected"
  /\ UNCHANGED <<classifierVars, retrieverVars, analyzerVars, batchVars, annotatorVars, error, uploaded_types, process_name, required, missing, compared>>

\* checklist.compare
Compare ==
  /\ pc = "call"
  /\ compared' = compare(uploaded_types, process_name)
  /\ pc' = "compared"
  /\ UNCHANGED <<classifierVars, retrieverVars, analyzerVars, batchVars, annotatorVars, error, uploaded_types, process_name, process, required, missing>>

NextChecklist ==
  \/ BatchChecklist
  \/ UploadAndRecheck
  \/ ChecklistDetect
  \/ Compare

SpecChecklist == InitChecklist /\ [][NextChecklist]_vars

\* The three anchor types, as the specification names them.
IsAnchor(t) ==
  t \in { "Articles of Association", "Memorandum of Association",
          "Incorporation Application Form" }

\* C2: reviewer.detect_process answers "Company Incorporation" exactly when the
\* list holds an anchor type and "Unknown" otherwise, before and after a
\* further upload: no anchor gives "Unknown", and once the answer is "Company
\* Incorporation" a further anchor upload leaves it so.
C2_ProcessIffAnchor ==
  pc \in {"checked", "rechecked"} =>
    /\ process \in {"Company Incorporation", "Unknown"}
    /\ process = "Company Incorporation"
         <=> \E i \in 1..Len(uploaded_types) : IsAnchor(uploaded_types[i])

\* A list that already held an anchor type got a further anchor upload and the
\* detection ran again.
C2_Witness ==
  /\ pc = "rechecked"
  /\ process = "Company Incorporation"
  /\ Len(uploaded_types) >= 2
  /\ IsAnchor(uploaded_types[Len(uploaded_types)])
  /\ \E i \in 1..(Len(uploaded_types) - 1) : IsAnchor(uploaded_types[i])

\* The required list of a process as the specification gives it.
RequiredFor(p) ==
  IF p = "Company Incorporation"
  THEN <<"Articles of Association", "Memorandum of Association",
         "Incorporation Application Form", "UBO Declaration Form",
         "Register of Members and Directors">>
  ELSE <<>>

\* m is req filtered to the types absent from up, in the order of req:
\* m runs through an increasing choice of positions of req, and a position of
\* req is chosen exactly when its type does not occur in up.
IsOrderedDifference(m, req, up) ==
  \E pos \in [1..Len(m) -> 1..Len(req)] :
    /\ \A i \in 1..Len(m) : m[i] = req[pos[i]]
    /\ \A i, j \in 1..Len(m) : i < j => pos[i] < pos[j]
    /\ \A k \in 1..Len(req) :
         (\E i \in 1..Len(m) : pos[i] = k)
           <=> ~(\E u \in 1..Len(up) : up[u] = req[k])

\* C3: the missing list of the batch pipeline and of checklist.compare is the
\* required list of the process (empty for an unknown process) filtered to
\* the types that do not occur among the uploads, in the required list's
\* order; it is empty exactly when every required type has been uploaded.
C3_MissingIsOrderedDifference ==
  /\ pc \in {"checked", "rechecked"} =>
       /\ required = RequiredFor(process)
       /\ IsOrderedDifference(missing, required, uploaded_types)
       /\ missing = <<>>
            <=> \A k \in 1..Len(required) :
                  \E u \in 1..Len(uploaded_types) : uploaded_types[u] = required[k]
  /\ pc = "compared" =>
       /\ compared.required = Len(RequiredFor(process_name))
       /\ IsOrderedDifference(compared.missing, RequiredFor(process_name), uploaded_types)
       /\ compared.missing = <<>>
            <=> \A k \in 1..Len(RequiredFor(process_name)) :
                  \E u \in 1..Len(uploaded_types) :
                    uploaded_types[u] = RequiredFor(process_name)[k]

\* Three of the five required types were uploaded and the two absent ones are
\* reported, in the required list's order.
C3_Witness ==
  /\ pc = "checked"
  /\ process = "Company Incorporation"
  /\ Len(uploaded_types) = 3
  /\ missing = <<"Memorandum of Association", "UBO Declaration Form">>

(***************************************************************************)
(* The retriever on its own: every bounded index, query and result count.  *)
(***************************************************************************)

\* The default of retrieve_context's top_k, the value analyze_single_file passes.
DefaultTopK == 5

\* How many chunks the reference index holds at most.
MaxChunks == 3

\* The largest distance of a query to a stored vector.
MaxDistance == 2

\* texts.pkl for a corpus of n chunks: chunk number i (0-based) has the text
\* "chunk<i>", so that a hit tells the stored position it came from.
ChunkNames == <<"chunk0", "chunk1", "chunk2", "chunk3", "chunk4", "chunk5">>

CorpusOf(n) ==
  [texts     |-> [i \in 1..n |-> ChunkNames[i]],
   metadatas |-> [i \in 1..n |-> [source |-> "ref.txt"]]]

InitRetrieve ==
  /\ pc = "call"
  /\ ClassifierIdle
  /\ ChecklistIdle
  /\ AnalyzerIdle
  /\ BatchIdle
  /\ AnnotatorIdle
  /\ error = "none"
  /\ ntotal \in 1..MaxChunks
  /\ data = CorpusOf(ntotal)
  /\ distance \in [1..ntotal -> 0..MaxDistance]
  /\ top_k \in 1..DefaultTopK
  /\ labels = <<>>
  /\ hits = <<>>

\* retrieve_context(query_text, top_k); the query's embedding is given by its
\* distances to the stored vectors.
Retrieve ==
  /\ pc = "call"
  /\ labels' \in SearchLabels(distance, ntotal, top_k)
  /\ \A i \in 1..Len(labels') : PyInRange(data.texts, labels'[i])
  /\ hits' = HitsOf(data, labels')
  /\ pc' = "retrieved"
  /\ UNCHANGED <<classifierVars, checklistVars, analyzerVars, batchVars, annotatorVars, error, data, ntotal, distance, top_k>>

NextRetrieve == Retrieve

SpecRetrieve == InitRetrieve /\ [][NextRetrieve]_vars

\* The stored position (0-based) a hit's text was read from.
PositionOf(hit) == CHOOSE i \in 0..(ntotal - 1) : data.texts[i + 1] = hit.text

\* C4: retrieval returns at most K chunks and never more than the index
\* holds; with fewer than K vectors in the index it returns exactly the N
\* available chunks, each stored position at most once; the chunks come in
\* the order of non-decreasing distance to the query.
C4_AtMostKNeverMoreThanIndexed ==
  pc = "retrieved" =>
    /\ Len(hits) <= top_k
    /\ Len(hits) <= ntotal
    /\ ntotal < top_k =>
         /\ Len(hits) = ntotal
         /\ \A i, j \in 1..Len(hits) :
              i # j => PositionOf(hits[i]) # PositionOf(hits[j])
    /\ \A i \in 1..(Len(hits) - 1) :
         distance[PositionOf(hits[i]) + 1] <= distance[PositionOf(hits[i + 1]) + 1]

(***************************************************************************)
(* The analyzer's parsing on its own: every bounded response, then the     *)
(* call.                                                                   *)
(***************************************************************************)

\* How many issue objects a JSON list in a response holds at most.
MaxIssues == 2

\* The texts of the JSON lists of up to MaxIssues issue objects.
IssueListTexts ==
  { <<"[">> \o JoinWith([i \in 1..Len(os) |-> <<os[i]>>], <<",", " ">>) \o <<"]">> :
      os \in UNION { [1..n -> DOMAIN JSONObjects] : n \in 0..MaxIssues } }

\* Bodies that are JSON but no list of issue objects, and bodies that are no JSON.
OtherBodies ==
  { <<"{a}">>, <<"1">>, <<"[", "1", "]">>, <<"[", "\n", "{a}", "\n", "]">>,
    <<>>, <<"x">>, <<"[", "{a}">>, <<"[", "{a}", ",", "]">>,
    <<"N", "o", " ", "i", "s", "s", "u", "e", "s">> }

LanguageTags ==
  { <<>>, <<"j", "s", "o", "n">>, <<"J", "S", "O", "N">>, <<"J", "s", "o", "n">>,
    <<"j", "s">>, <<"j", "s", "o", "n", "c">> }

\* How a response text is put together: white space, an opening fence, a
\* language tag, a line break, the body, a line break, a closing fence,
\* white space; every part may be absent.
ResponseParts ==
  [pre   : {<<>>, <<" ">>, <<"\n">>},
   open  : {<<>>, Fence},
   tag   : LanguageTags,
   sep   : {<<>>, <<"\n">>},
   body  : IssueListTexts \cup OtherBodies,
   sep2  : {<<>>, <<"\n">>},
   close : {<<>>, Fence},
   post  : {<<>>, <<"\n">>}]

TextOfParts(p) ==
  p.pre \o p.open \o p.tag \o p.sep \o p.body \o p.sep2 \o p.close \o p.post

\* What generate_content(...).text does: a text (with the parts it is made
\* of), or an exception.
ModelOutcomes ==
  { [tag |-> "text", val |-> TextOfParts(p), parts |-> p] : p \in ResponseParts }
    \cup { [tag |-> "raises", error |-> "ServiceUnavailable"] }

InitAnalyze ==
  /\ pc = "call"
  /\ error = "none"
  /\ ClassifierIdle
  /\ ChecklistIdle
  /\ RetrieverIdle
  /\ BatchIdle
  /\ AnnotatorIdle
  /\ outcome \in ModelOutcomes
  /\ issues = [tag |-> "none"]

\* call_gemini_for_review when the model call returns a text.
CallGeminiReturns ==
  /\ pc = "call"
  /\ outcome.tag = "text"
  /\ issues' = issues_of(outcome.val)
  /\ pc' = "returned"
  /\ UNCHANGED <<error, outcome, classifierVars, checklistVars, retrieverVars,
                 batchVars, annotatorVars>>

\* call_gemini_for_review when the model call raises: nothing catches it.
CallGeminiRaises ==
  /\ pc = "call"
  /\ outcome.tag = "raises"
  /\ error' = outcome.error
  /\ pc' = "raised"
  /\ UNCHANGED <<issues, outcome, classifierVars, checklistVars, retrieverVars,
                 batchVars, annotatorVars>>

NextAnalyze ==
  \/ CallGeminiReturns
  \/ CallGeminiRaises

SpecAnalyze == InitAnalyze /\ [][NextAnalyze]_vars

\* The value is the list of the one parse-failure record whose raw field is t.
IsParseFailureOf(v, t) ==
  /\ v.tag = "list"
  /\ Len(v.items) = 1
  /\ v.items[1].tag = "dict"
  /\ "raw" \in DOMAIN v.items[1].d
  /\ v.items[1].d.raw = t

\* C5: for a response text that is not valid JSON the call returns a list of
\* exactly one record, whose raw field is the response text character for
\* character.
C5_RawIsResponseVerbatim ==
  (pc = "returned" /\ ~json_loads(outcome.val).ok)
    => IsParseFailureOf(issues, outcome.val)

\* The response is a JSON list of issue objects inside a fence: optional
\* white space, the opening fence, a tag of the given set, the list, the
\* closing fence, optional white space.
IsFencedList(o, tags) ==
  /\ o.tag = "text"
  /\ o.parts.open = Fence
  /\ o.parts.close = Fence
  /\ o.parts.tag \in tags
  /\ o.parts.body \in IssueListTexts

\* C10 as stated: a JSON issue list in a fence with a language tag, whatever
\* the tag, comes back as exactly the list inside the fence.
C10_AnyTagFencedListParsed ==
  (pc = "returned" /\ IsFencedList(outcome, LanguageTags \ {<<>>}))
    => issues = json_loads(outcome.parts.body).val

\* The tag json in any letter case.
JsonTags == { t \in LanguageTags : Lower(t) = <<"j", "s", "o", "n">> }

\* C10 as amended: a JSON issue list in a fence whose language tag is "json",
\* in any letter case, comes back as exactly the list inside the fence.
C10_JsonTagFencedListParsed ==
  (pc = "returned" /\ IsFencedList(outcome, JsonTags))
    => issues = json_loads(outcome.parts.body).val

\* A fenced list of two issues under the tag JSON, with line breaks around
\* the list, has been parsed.
C10_Witness ==
  /\ pc = "returned"
  /\ IsFencedList(outcome, {<<"J", "S", "O", "N">>})
  /\ outcome.parts.sep = <<"\n">>
  /\ outcome.parts.sep2 = <<"\n">>
  /\ issues.tag = "list"
  /\ Len(issues.items) = 2
  /\ issues.items[1] # issues.items[2]

(***************************************************************************)
(* The annotator on its own: every bounded document, then annotation       *)
(* calls with any paragraph index and comment, then the save.              *)
(***************************************************************************)

\* How many paragraphs a document holds at most.
MaxParagraphs == 2

\* How many annotation calls are made on one document at most.
MaxAnnotations == 2

ParagraphTexts == { <<>>, <<"N", "A", "M", "E">>, <<"a", " ", "N", "a", "m", "e">> }

Comments == { <<"f", "i", "x">>, <<"b", "a", "d">> }

\* The documents of up to MaxParagraphs paragraphs, each of one plain run.
Documents ==
  UNION { [1..n -> { <<PlainRun(t)>> : t \in ParagraphTexts }] : n \in 0..MaxParagraphs }

\* Paragraph indices in and out of a document's range, negative ones included.
ParagraphIndices == (-2)..(MaxParagraphs + 1)

\* Issue dicts as the annotation loop meets them: with a suggestion, with
\* an issue text only, with neither.
AnnotationIssues ==
  { [suggestion |-> c, issue |-> <<"b", "a", "d">>, paragraph_index |-> i] :
      c \in Comments, i \in ParagraphIndices }
  \cup { [issue |-> c, paragraph_index |-> i] : c \in Comments, i \in ParagraphIndices }
  \cup { [severity |-> "Low", paragraph_index |-> i] : i \in ParagraphIndices }

InitAnnotate ==
  /\ pc = "annotating"
  /\ error = "none"
  /\ ClassifierIdle
  /\ ChecklistIdle
  /\ RetrieverIdle
  /\ AnalyzerIdle
  /\ folder = {}
  /\ \E paras \in Documents : files = <<DocxUpload("upload.docx", paras)>>
  /\ results = <<>>
  /\ report = NoReport
  /\ reviewed = <<>>
  /\ doc = OpenDocument(files[1].paragraphs)
  /\ annotated = 0

\* One pass of the loop of lines 196-198 of analyze_single_file.
ReviewerAnnotate ==
  /\ pc = "annotating"
  /\ annotated < MaxAnnotations
  /\ \E issue \in AnnotationIssues :
       doc' = add_inline_annotation(doc, annotation_index(issue),
                                    annotation_comment(issue))
  /\ annotated' = annotated + 1
  /\ UNCHANGED <<pc, error, classifierVars, checklistVars, retrieverVars,
                 analyzerVars, batchVars>>

\* docx_utils.add_inline_annotation with an index the paragraph list accepts.
DocxUtilsAnnotate ==
  /\ pc = "annotating"
  /\ annotated < MaxAnnotations
  /\ \E i \in ParagraphIndices, c \in Comments :
       /\ PyInRange(doc.paragraphs, i)
       /\ doc' = docx_utils_add_inline_annotation(doc, i, c)
  /\ annotated' = annotated + 1
  /\ UNCHANGED <<pc, error, classifierVars, checklistVars, retrieverVars,
                 analyzerVars, batchVars>>

\* docx_utils.add_inline_annotation with an index outside the paragraph
\* list: doc.paragraphs[para_index] raises, nothing is saved.
DocxUtilsAnnotateRaises ==
  /\ pc = "annotating"
  /\ annotated < MaxAnnotations
  /\ \E i \in ParagraphIndices : ~PyInRange(doc.paragraphs, i)
  /\ pc' = "raised"
  /\ error' = "IndexError"
  /\ UNCHANGED <<classifierVars, checklistVars, retrieverVars, analyzerVars,
                 batchVars, annotatorVars>>

\* doc.save(reviewed_path) and docx_utils.save_doc: the file of that name is
\* written, over an earlier one.
SaveReviewed ==
  /\ pc = "annotating"
  /\ reviewed' = (ReviewedName(files[1]) :> doc.paragraphs) @@ reviewed
  /\ pc' = "saved"
  /\ UNCHANGED <<error, classifierVars, checklistVars, retrieverVars,
                 analyzerVars, folder, files, results, report, annotatorVars>>

NextAnnotate ==
  \/ ReviewerAnnotate
  \/ DocxUtilsAnnotate
  \/ DocxUtilsAnnotateRaises
  \/ SaveReviewed

SpecAnnotate == InitAnnotate /\ [][NextAnnotate]_vars

\* The length of a review marker with an empty comment.
EmptyMarkerLen == Len(ReviewMarker(<<>>))

\* The text is a run of review markers "  [REVIEW: <comment>]", the comments
\* being any texts (n is the length of the first one).
RECURSIVE IsMarkers(_)
IsMarkers(t) ==
  \/ t = <<>>
  \/ \E n \in 0..(Len(t) - EmptyMarkerLen) :
       /\ StartsWith(t, ReviewMarker(SubSeq(t, EmptyMarkerLen, EmptyMarkerLen + n - 1)))
       /\ IsMarkers(SliceFrom(t, EmptyMarkerLen + n))

\* out has the paragraphs of orig, in their places, each with its text kept
\* as a prefix and nothing but review markers after it.
OnlyMarkersAppended(orig, out) ==
  /\ Len(out) = Len(orig)
  /\ \A i \in 1..Len(orig) :
       /\ StartsWith(ParagraphText(out[i]), ParagraphText(orig[i]))
       /\ IsMarkers(SliceFrom(ParagraphText(out[i]), Len(ParagraphText(orig[i]))))

\* C7: whatever issues were annotated, with whatever indices and comments,
\* the document in memory and the document saved have as many paragraphs as
\* the upload, each with the upload's text as a prefix followed by zero or
\* more review markers.
C7_AnnotationOnlyAppendsMarkers ==
  /\ doc # NoDocument => OnlyMarkersAppended(files[1].paragraphs, doc.paragraphs)
  /\ pc = "saved" =>
       /\ DOMAIN reviewed = { ReviewedName(files[1]) }
       /\ OnlyMarkersAppended(files[1].paragraphs, reviewed[ReviewedName(files[1])])

\* A document of two paragraphs was saved after two annotations of its
\* second paragraph.
C7_Witness ==
  /\ pc = "saved"
  /\ annotated = 2
  /\ Len(files[1].paragraphs) = 2
  /\ ParagraphText(files[1].paragraphs[2]) # <<>>
  /\ Len(reviewed[ReviewedName(files[1])][2]) = 3
  /\ reviewed[ReviewedName(files[1])][1] = files[1].paragraphs[1]

(***************************************************************************)
(* The batch pipeline: every bounded uploads directory; the files are      *)
(* analyzed one by one, the model call doing any of a few things for each, *)
(* and the combined report is written at the end.  analyze_single_file can *)
(* also be called on one file of the directory, as app.py imports it.      *)
(***************************************************************************)

\* How many files the uploads directory holds at most.
MaxFiles == 3

\* The files that can be in the uploads directory, in the order of their names.
UploadChoices ==
  <<DocxUpload("aoa.docx", <<<<PlainRun(<<"A", "r", "t", "i", "c", "l", "e", "s", " ", "o", "f", " ", "A", "s", "s", "o", "c", "i", "a", "t", "i", "o", "n">>)>>, <<PlainRun(<<"a", " ", "N", "a", "m", "e">>)>>>>),
    DocxUpload("board.docx", <<<<PlainRun(<<"B", "O", "A", "R", "D", " ", "R", "E", "S", "O", "L", "U", "T", "I", "O", "N">>)>>>>),
    DocxUpload("empty.docx", <<>>),
    PdfUpload("memo.pdf", <<"M", "e", "m", "o", "r", "a", "n", "d", "u", "m", " ", "o", "f", " ", "A", "s", "s", "o", "c", "i", "a", "t", "i", "o", "n">>),
    DocxUpload("ubo.docx", <<<<PlainRun(<<"N", "A", "M", "E">>)>>, <<PlainRun(<<"U", "B", "O", " ", "D", "e", "c", "l", "a", "r", "a", "t", "i", "o", "n">>)>>>>),
    OtherUpload("notes.txt", <<".", "t", "x", "t">>)>>

\* A response text that is the body alone.
PlainResponse(b) ==
  [pre |-> <<>>, open |-> <<>>, tag |-> <<>>, sep |-> <<>>, body |-> b,
   sep2 |-> <<>>, close |-> <<>>, post |-> <<>>]

\* A response text that is the body in a fence tagged json, on lines of its own.
FencedResponse(b) ==
  [pre |-> <<>>, open |-> Fence, tag |-> <<"j", "s", "o", "n">>, sep |-> <<"\n">>,
   body |-> b, sep2 |-> <<"\n">>, close |-> Fence, post |-> <<"\n">>]

\* What the model call does for a file of a batch: no issue, two issues in
\* a fence, an issue with an index out of range, no JSON, a JSON object, a
\* list of numbers, or an exception.
BatchOutcomes ==
  { [tag |-> "text", val |-> TextOfParts(p), parts |-> p] :
      p \in { PlainResponse(<<"[", "]">>),
              FencedResponse(<<"[", "{a}", ",", " ", "{b}", "]">>),
              PlainResponse(<<"[", "{c}", "]">>),
              PlainResponse(<<"N", "o", " ", "i", "s", "s", "u", "e", "s">>),
              PlainResponse(<<"{a}">>),
              PlainResponse(<<"[", "1", "]">>) } }
    \cup { [tag |-> "raises", error |-> "ServiceUnavailable"] }

Init ==
  /\ pc = "start"
  /\ error = "none"
  /\ ClassifierIdle
  /\ ChecklistIdle
  /\ AnalyzerIdle
  /\ AnnotatorIdle
  /\ data = CorpusOf(MaxChunks)
  /\ ntotal = MaxChunks
  /\ distance = [i \in 1..MaxChunks |-> 0]
  /\ top_k = DefaultTopK
  /\ labels = <<>>
  /\ hits = <<>>
  /\ folder \in { held \in SUBSET (1..Len(UploadChoices)) : Cardinality(held) <= MaxFiles }
  /\ files = <<>>
  /\ results = <<>>
  /\ report \in { NoReport, EarlierReport }
  /\ reviewed = <<>>

\* retrieve_context(doc_text, top_k=5) returns, whatever the distances of
\* the query and whatever ranking the search picks among equal distances:
\* no label is outside data["texts"] (the index holds a vector, so -1 is the
\* last chunk, not an IndexError).
RetrievalReturns ==
  { dist \in [1..ntotal -> 0..MaxDistance] :
      \E lbls \in SearchLabels(dist, ntotal, DefaultTopK) :
        \E i \in 1..Len(lbls) : ~PyInRange(data.texts, lbls[i]) } = {}

\* analyze_uploads_folder, lines 212-214, on a directory without .docx files.
NoFilesFound ==
  /\ pc = "start"
  /\ GlobDocx(UploadChoices, folder) = <<>>
  /\ pc' = "raised"
  /\ error' = "FileNotFoundError"
  /\ UNCHANGED <<classifierVars, checklistVars, retrieverVars, analyzerVars,
                 batchVars, annotatorVars>>

\* analyze_uploads_folder, lines 212-217, on a directory with .docx files.
FilesFound ==
  /\ pc = "start"
  /\ GlobDocx(UploadChoices, folder) # <<>>
  /\ files' = GlobDocx(UploadChoices, folder)
  /\ results' = <<>>
  /\ uploaded_types' = <<>>
  /\ pc' = "loop"
  /\ UNCHANGED <<error, classifierVars, process_name, process, required, missing,
                 compared, retrieverVars, analyzerVars, folder, report, reviewed,
                 annotatorVars>>

\* One pass of the loop of lines 219-223 in which analyze_single_file returns.
AnalyzeNextFile ==
  /\ pc = "loop"
  /\ Len(results) < Len(files)
  /\ RetrievalReturns
  /\ \E out \in BatchOutcomes :
       \E r \in { analyze_single_file(files[Len(results) + 1], out) } :
         /\ ~r.raised
         /\ results' = Append(results, r.result)
         /\ uploaded_types' = Append(uploaded_types, r.result.doc_type)
         /\ reviewed' = SavedInto(reviewed, files[Len(results) + 1], r)
  /\ UNCHANGED <<pc, error, classifierVars, process_name, process, required, missing,
                 compared, retrieverVars, analyzerVars, folder, files, report,
                 annotatorVars>>

\* One pass of the loop in which analyze_single_file raises: the exception
\* leaves analyze_uploads_folder.
AnalyzeNextFileRaises ==
  /\ pc = "loop"
  /\ Len(results) < Len(files)
  /\ RetrievalReturns
  /\ \E out \in BatchOutcomes :
       \E r \in { analyze_single_file(files[Len(results) + 1], out) } :
         /\ r.raised
         /\ error' = r.error
  /\ pc' = "raised"
  /\ UNCHANGED <<classifierVars, checklistVars, retrieverVars, analyzerVars,
                 batchVars, annotatorVars>>

\* The early exit on an empty file list forgotten: the lines after the loop
\* run for a directory without .docx files.
WriteReport_empty_batch_too ==
  /\ \/ pc = "loop" /\ Len(results) = Len(files)
     \/ pc = "start" /\ GlobDocx(UploadChoices, folder) = <<>>
  /\ process' = detect_process(uploaded_types)
  /\ required' = DictGet(REQUIRED_DOCS, process', <<>>)
  /\ missing' = MissingFrom(required', uploaded_types)
  /\ report' = CombinedReport(process', files, required', missing', results)
  /\ pc' = "done"
  /\ UNCHANGED <<error, classifierVars, uploaded_types, process_name, compared,
                 retrieverVars, analyzerVars, folder, files, results, reviewed,
                 annotatorVars>>

\* analyze_uploads_folder, lines 225-243, after the loop.
WriteReport ==
  /\ pc = "loop"
  /\ Len(results) = Len(files)
  /\ process' = detect_process(uploaded_types)
  /\ required' = DictGet(REQUIRED_DOCS, process', <<>>)
  /\ missing' = MissingFrom(required', uploaded_types)
  /\ report' = CombinedReport(process', files, required', missing', results)
  /\ pc' = "done"
  /\ UNCHANGED <<error, classifierVars, uploaded_types, process_name, compared,
                 retrieverVars, analyzerVars, folder, files, results, reviewed,
                 annotatorVars>>

\* analyze_single_file called on one file of the directory, and it returns.
AnalyzeSingle ==
  /\ pc = "start"
  /\ RetrievalReturns
  /\ \E n \in folder, out \in BatchOutcomes :
       \E r \in { analyze_single_file(UploadChoices[n], out) } :
         /\ ~r.raised
         /\ files' = <<UploadChoices[n]>>
         /\ results' = <<r.result>>
         /\ reviewed' = SavedInto(reviewed, UploadChoices[n], r)
  /\ pc' = "single_returned"
  /\ UNCHANGED <<error, classifierVars, checklistVars, retrieverVars, analyzerVars,
                 folder, report, annotatorVars>>

\* analyze_single_file called on one file of the directory, and it raises.
AnalyzeSingleRaises ==
  /\ pc = "start"
  /\ \E n \in folder, out \in BatchOutcomes :
       \E r \in { analyze_single_file(UploadChoices[n], out) } :
         /\ r.raised
         /\ (r.error # "ValueError" => RetrievalReturns)
         /\ files' = <<UploadChoices[n]>>
         /\ error' = r.error
  /\ pc' = "single_raised"
  /\ UNCHANGED <<classifierVars, checklistVars, retrieverVars, analyzerVars,
                 folder, results, report, reviewed, annotatorVars>>

Next ==
  \/ NoFilesFound
  \/ FilesFound
  \/ AnalyzeNextFile
  \/ AnalyzeNextFileRaises
  \/ WriteReport
  \/ AnalyzeSingle
  \/ AnalyzeSingleRaises

Spec == Init /\ [][Next]_vars

\* C6: a bad outcome of the model call (it raises, the text is no JSON, the
\* JSON is no list of issue records) never leaves analyze_single_file as an
\* exception, so a batch of .docx files is never aborted by it: a batch run
\* raises only for want of documents, and analyze_single_file raises only on
\* an unsupported file extension.
C6_OnlyUnsupportedTypeRaises ==
  /\ pc = "raised" => error = "FileNotFoundError"
  /\ pc = "single_raised" => error = "ValueError"

\* C8: a batch run over a directory without supported documents ends in the
\* "no documents found" error and leaves the report file as it was; the
\* report is written only once every document of the batch has been analyzed
\* and none of the analyses raised, and then it holds every result.
C8_ReportOnlyAfterWholeBatch ==
  /\ (GlobDocx(UploadChoices, folder) = <<>>
        /\ pc \notin {"start", "single_returned", "single_raised"})
       => /\ pc = "raised"
          /\ error = "FileNotFoundError"
          /\ report \in {NoReport, EarlierReport}
  /\ report \notin {NoReport, EarlierReport}
       => /\ pc = "done"
          /\ error = "none"
          /\ files # <<>>
          /\ Len(results) = Len(files)
          /\ report.documents_uploaded = Len(files)
          /\ report.per_file_results = results
          /\ \A i \in 1..Len(files) : results[i].file = files[i].path

\* A batch run over a directory that holds files, none of them a .docx, has
\* raised, and the report of an earlier run is still in place.
C8_Witness ==
  /\ pc = "raised"
  /\ error = "FileNotFoundError"
  /\ folder # {}
  /\ report = EarlierReport

\* The number of anchor-type documents among the results of the batch.
AnchorDocuments ==
  Cardinality({ i \in 1..Len(results) : IsAnchor(results[i].doc_type) })

\* The batch is one document whose text holds "Articles of Association".
SingleArticlesUpload ==
  /\ Len(files) = 1
  /\ ContainsAnyCase(<<"a", "r", "t", "i", "c", "l", "e", "s", " ", "o", "f", " ", "a", "s", "s", "o", "c", "i", "a", "t", "i", "o", "n">>, PyStr(read_docx_text(files[1].paragraphs)))

\* C9 as stated: a finished batch reports "Company Incorporation" only if at
\* least 2 anchor-type documents are in the batch, so a single upload of the
\* Articles of Association does not yield it.
C9_TwoAnchorsNeeded ==
  (pc = "done" /\ report.process = "Company Incorporation") => AnchorDocuments >= 2

\* C9 as amended: a finished batch reports "Company Incorporation" exactly
\* when at least 1 anchor-type document is in the batch; a single upload
\* whose text holds "Articles of Association" is classified as that type and
\* alone yields "Company Incorporation", with the 4 other required types
\* reported missing.
C9_OneAnchorSuffices ==
  pc = "done" =>
    /\ report.process = "Company Incorporation" <=> AnchorDocuments >= 1
    /\ SingleArticlesUpload =>
         /\ results[1].doc_type = "Articles of Association"
         /\ report.process = "Company Incorporation"
         /\ report.missing_documents =
              <<"Memorandum of Association", "Incorporation Application Form",
                "UBO Declaration Form", "Register of Members and Directors">>

\* A batch of the single Articles of Association upload has finished with
\* the process "Company Incorporation".
C9_Witness ==
  /\ pc = "done"
  /\ SingleArticlesUpload
  /\ AnchorDocuments = 1
  /\ report.process = "Company Incorporation"
  /\ Len(report.missing_documents) = 4

(***************************************************************************)
(* The paragraph index of an issue: every bounded .docx document and every *)
(* bounded list of issue records returned by call_gemini_for_review, then  *)
(* the rest of analyze_single_file (the back-fill loop, the annotation     *)
(* loop, the save and the returned dict).                                  *)
(***************************************************************************)

\* How many issue records the model call returns at most.
MaxResolved == 2

\* document_section values: empty, found in "NAME" and "a Name" when the
\* letter case is ignored, found nowhere.
SectionTexts == { <<>>, <<"N", "a", "m", "e">>, <<"d", "e", "e", "d">> }

\* paragraph_index values as the generative model may write them: before the
\* first paragraph, inside a document, past the end of every document.
CarriedIndices == (-1)..(MaxParagraphs + 1)

\* Issue records without a document_section, with one, and with a
\* paragraph_index of their own.
ResolutionIssues ==
  { [issue |-> <<"b", "a", "d">>, suggestion |-> <<"f", "i", "x">>] }
  \cup { [document_section |-> q, issue |-> <<"b", "a", "d">>, suggestion |-> <<"f", "i", "x">>] :
           q \in SectionTexts }
  \cup { [document_section |-> <<"N", "a", "m", "e">>, issue |-> <<"b", "a", "d">>, suggestion |-> <<"f", "i", "x">>,
          paragraph_index |-> i] : i \in CarriedIndices }

IssueLists ==
  UNION { [1..n -> { PyDict(i) : i \in ResolutionIssues }] : n \in 0..MaxResolved }

\* analyze_single_file after line 174: the document is read and classified,
\* the model call has returned a list of issue records.
InitResolve ==
  /\ pc = "reviewed"
  /\ error = "none"
  /\ ChecklistIdle
  /\ RetrieverIdle
  /\ folder = {}
  /\ \E paras \in Documents : files = <<DocxUpload("upload.docx", paras)>>
  /\ text = PyStr(read_docx_text(files[1].paragraphs))
  /\ doc_type = detect_doc_type(text)
  /\ outcome = [tag |-> "none"]
  /\ \E items \in IssueLists : issues = PyList(items)
  /\ results = <<>>
  /\ report = NoReport
  /\ reviewed = <<>>
  /\ doc = OpenDocument(files[1].paragraphs)
  /\ annotated = 0

\* Lines 176-206 of analyze_single_file.
ResolveAndAnnotate ==
  /\ pc = "reviewed"
  /\ \E filled \in { Backfill(issues, doc) } :
       /\ filled.ok
       /\ doc' = AnnotateAll(doc, filled.val.items, 1)
       /\ annotated' = Len(filled.val.items)
       /\ reviewed' = (ReviewedName(files[1]) :> doc'.paragraphs) @@ reviewed
       /\ results' = <<[file          |-> files[1].path,
                        doc_type      |-> doc_type,
                        reviewed_file |-> ReviewedName(files[1]),
                        issues        |-> filled.val]>>
  /\ pc' = "returned"
  /\ UNCHANGED <<error, classifierVars, checklistVars, retrieverVars,
                 analyzerVars, folder, files, report>>

NextResolve == ResolveAndAnnotate

SpecResolve == InitResolve /\ [][NextResolve]_vars

\* The paragraph positions (from 0) whose text holds the section text q, the
\* letter case ignored.
MatchingParagraphs(q, paras) ==
  { i \in 0..(Len(paras) - 1) :
      ContainsAnyCase(q, PyStr(ParagraphText(paras[i + 1]))) }

\* The index the resolution policy names for the issue record the model
\* call returned.
PolicyIndex(orig, paras) ==
  IF "paragraph_index" \in DOMAIN orig THEN orig.paragraph_index
  ELSE LET q == IF "document_section" \in DOMAIN orig
                THEN orig.document_section
                ELSE <<>>
       IN  IF q = <<>> \/ MatchingParagraphs(q, paras) = {} THEN 0
           ELSE CHOOSE i \in MatchingParagraphs(q, paras) :
                  \A j \in MatchingParagraphs(q, paras) : i <= j

\* The index the annotation loop used for issue k of the returned list.
UsedIndex(k) == annotation_index(results[1].issues.items[k].d)

\* The index of every issue follows the resolution policy: its own
\* paragraph_index if it carries one, else the least paragraph holding its
\* non-empty document_section, else 0; nothing else of the record changes.
IndexFollowsPolicy ==
  pc = "returned" =>
    /\ Len(results[1].issues.items) = Len(issues.items)
    /\ \A k \in 1..Len(issues.items) :
         /\ UsedIndex(k) = PolicyIndex(issues.items[k].d, files[1].paragraphs)
         /\ \A f \in DOMAIN issues.items[k].d :
              results[1].issues.items[k].d[f] = issues.items[k].d[f]

\* C11: the index of every issue follows the resolution policy, and in a
\* document of at least one paragraph the index so resolved is a paragraph
\* position: 0 <= index < number of paragraphs.
C11_ResolvedIndexAlwaysValid ==
  /\ IndexFollowsPolicy
  /\ pc = "returned" /\ Len(files[1].paragraphs) >= 1
       => \A k \in 1..Len(issues.items) :
            UsedIndex(k) \in 0..(Len(files[1].paragraphs) - 1)

\* The back-filled index alone is a paragraph position: an issue that
\* carries no paragraph_index gets one inside the document, and it is
\* annotated there.
BackfilledIndexValid ==
  pc = "returned" /\ Len(files[1].paragraphs) >= 1
    => \A k \in 1..Len(issues.items) :
         "paragraph_index" \notin DOMAIN issues.items[k].d
           => UsedIndex(k) \in 0..(Len(files[1].paragraphs) - 1)

\* An issue whose section text is found first in the second paragraph, in
\* another letter case, was resolved to index 1.
ResolvedBySearch ==
  /\ pc = "returned"
  /\ Len(issues.items) >= 1
  /\ "paragraph_index" \notin DOMAIN issues.items[1].d
  /\ Len(files[1].paragraphs) = 2
  /\ ParagraphText(files[1].paragraphs[2]) = <<"N", "A", "M", "E">>
  /\ UsedIndex(1) = 1

====
